---- MODULE Spec2Model ----
(***************************************************************************)
(* A model of the table printer of src/src/lib.rs.                         *)
(*                                                                         *)
(* A Rust String is modelled as the sequence of its UTF-8 bytes, so that   *)
(* String::len() is Len and as_bytes() is the sequence itself.  A char is  *)
(* modelled as its code point; char::to_string() encodes it.               *)
(* Indices given to the operations are 0-based, as in the source; the      *)
(* sequences of the model are 1-based.                                     *)
(*                                                                         *)
(* The operations on the table are one action each.  A render is a call    *)
(* in progress (`frame`) that advances by one call to the sink per step,   *)
(* because each such call may fail; the table is borrowed while it runs.   *)
(***************************************************************************)
EXTENDS Integers, Sequences, FiniteSets, TLC

VARIABLES num_cols, titles, rows, col_sep, line_sep, sep_cross, last, frame

vars == <<num_cols, titles, rows, col_sep, line_sep, sep_cross, last, frame>>

\* Bounds of the model.
MaxRows == 2

----------------------------------------------------------------------------
\* Strings and conversions

\* static LINEFEED (the unix build)
LINEFEED == <<10>>

\* b" "
SPACE == <<32>>

\* char::to_string().as_bytes(): the UTF-8 encoding of a code point below 2^16
char_to_string(c) ==
    IF c < 128 THEN <<c>>
    ELSE IF c < 2048 THEN <<192 + (c \div 64), 128 + (c % 64)>>
    ELSE <<224 + (c \div 4096), 128 + ((c \div 64) % 64), 128 + (c % 64)>>

RECURSIVE digits(_)
\* the decimal digits of a natural number, as ASCII bytes
digits(n) == IF n < 10 THEN <<48 + n>> ELSE Append(digits(n \div 10), 48 + (n % 10))

\* ToString::to_string of the element given to set_element: an integer is
\* formatted in decimal, a string is copied
to_string(element) ==
    IF element.kind = "int"
    THEN IF element.v < 0 THEN <<45>> \o digits(0 - element.v) ELSE digits(element.v)
    ELSE element.v

\* "".to_string()
EmptyString == <<>>

----------------------------------------------------------------------------
\* Inputs

\* "a", "N\u{e9}" (3 bytes)
TitleInputs == { <<>>, << <<97>> >>, << <<78, 195, 169>>, <<97>> >> }

\* 30, and the empty string
Elements == { [kind |-> "int", v |-> 30], [kind |-> "str", v |-> <<>>] }

CellInputs == { to_string(e) : e \in Elements }

RECURSIVE SeqsOfLen(_, _)
SeqsOfLen(S, n) ==
    IF n = 0 THEN { <<>> }
    ELSE { Append(s, x) : s \in SeqsOfLen(S, n - 1), x \in S }

\* the widest table of the model
MaxCols == CHOOSE n \in { Len(ts) : ts \in TitleInputs } : \A ts \in TitleInputs : Len(ts) <= n

\* rows of every arity up to one more than the widest table's
RowInputs == UNION { SeqsOfLen(CellInputs, n) : n \in 0..(MaxCols + 1) }

\* the cell written through a row reference: "30"
RefInputs == { to_string([kind |-> "int", v |-> 30]) }

\* ('|', '-', '+') and ('\u{2551}', '=', '+')
SeparatorInputs == { <<124, 45, 43>>, <<9553, 61, 43>> }

----------------------------------------------------------------------------
\* The table

\* struct Table
Self ==
    [num_cols |-> num_cols, titles |-> titles, rows |-> rows,
     col_sep |-> col_sep, line_sep |-> line_sep, sep_cross |-> sep_cross]

\* Table::new
new(ts) ==
    [num_cols |-> Len(ts), titles |-> ts, rows |-> <<>>,
     col_sep |-> 124, line_sep |-> 45, sep_cross |-> 43]

\* Table::separators
separators(self, col, line, cross) ==
    [self EXCEPT !.col_sep = col, !.line_sep = line, !.sep_cross = cross]

\* Table::get_column_num
get_column_num(self) == self.num_cols

\* Table::len
len(self) == Len(self.rows)

\* Table::get_mut_row: indexing &mut self.rows[row] panics out of bounds
get_mut_row(self, row) ==
    IF row < Len(self.rows) THEN [res |-> "ok", idx |-> row + 1]
    ELSE [res |-> "panic", idx |-> 0]

\* Table::get_row
get_row(self, row) ==
    IF row < Len(self.rows) THEN [res |-> "ok", row |-> self.rows[row + 1]]
    ELSE [res |-> "panic", row |-> <<>>]

\* add_row with `>` for `!=` in its arity test: a short row is accepted
add_row_LongOnly(self, row) ==
    IF Len(row) > self.num_cols
    THEN [self |-> self, res |-> "Err"]
    ELSE [self |-> [self EXCEPT !.rows = Append(@, row)], res |-> "Ok"]

\* Table::add_row
add_row(self, row) ==
    IF Len(row) # self.num_cols
    THEN [self |-> self, res |-> "Err"]
    ELSE LET pushed == [self EXCEPT !.rows = Append(@, row)]
             l == Len(pushed.rows) - 1
         IN  [self |-> pushed, res |-> "Ok", ref |-> get_mut_row(pushed, l)]

\* vec!["".to_string(); n]
empty_row(n) == [i \in 1..n |-> EmptyString]

\* Table::add_empty_row
add_empty_row(self) ==
    LET n == self.num_cols
    IN  add_row(self, empty_row(n))

\* Table::set_element
set_element(self, element, column, row) ==
    IF column >= self.num_cols
    THEN [self |-> self, res |-> "ErrColumn"]
    ELSE IF row > Len(self.rows)
    THEN [self |-> self, res |-> "ErrRow"]
    ELSE LET rowline == get_mut_row(self, row)
         IN  IF rowline.res = "panic"
             THEN [self |-> self, res |-> "panic"]
             ELSE IF column >= Len(self.rows[rowline.idx])
             THEN [self |-> self, res |-> "panic"]
             ELSE [self |-> [self EXCEPT !.rows[rowline.idx][column + 1] = to_string(element)],
                   res |-> "Ok"]

\* Vec::remove on an index known to be in bounds
vec_remove(s, i) == [k \in 1..(Len(s) - 1) |-> IF k < i THEN s[k] ELSE s[k + 1]]

\* remove_row with Vec::pop for Vec::remove: the last row goes
remove_row_Pop(self, row) ==
    IF row < Len(self.rows)
    THEN [self EXCEPT !.rows = SubSeq(@, 1, Len(@) - 1)]
    ELSE self

\* Table::remove_row
remove_row(self, row) ==
    IF row < Len(self.rows)
    THEN [self EXCEPT !.rows = vec_remove(@, row + 1)]
    ELSE self

----------------------------------------------------------------------------
\* The output sink: a Write that records every call made to it

\* a sink of the given kind: "io" (any Write, each call may fail) or "string"
\* (the StringWriter)
Sink(kind) == [kind |-> kind, events |-> <<>>]

NoSink == Sink("none")

RECURSIVE from_utf8(_)
\* str::from_utf8 on encodings of code points below 2^16: TRUE iff data is valid
from_utf8(data) ==
    IF data = <<>> THEN TRUE
    ELSE LET b == data[1]
             n == IF b < 128 THEN 1
                  ELSE IF b >= 194 /\ b < 224 THEN 2
                  ELSE IF b >= 224 /\ b < 240 THEN 3
                  ELSE 0
         IN  /\ n > 0
             /\ Len(data) >= n
             /\ \A k \in 2..n : data[k] >= 128 /\ data[k] < 192
             /\ from_utf8(SubSeq(data, n + 1, Len(data)))

\* <StringWriter as Write>::write: fails on bytes that are not UTF-8
StringWriter_write(data) == from_utf8(data)

\* the outcomes of out.write_all(data): either one on an arbitrary Write (what
\* a failed call wrote of its data is not recorded)
write_all(out, data) ==
    IF out.kind = "string" THEN { StringWriter_write(data) } ELSE BOOLEAN

\* the outcomes of out.flush(); <StringWriter as Write>::flush always succeeds
flush(out) ==
    IF out.kind = "string" THEN { TRUE } ELSE BOOLEAN

\* the sink after a call
Written(out, op, data, ok) ==
    [out EXCEPT !.events = Append(@, [op |-> op, data |-> data, ok |-> ok])]

----------------------------------------------------------------------------
\* Layout

RECURSIVE get_col_width_rows_Min(_, _, _, _)
\* get_col_width with `l < width` for `l > width`: the shortest cell wins
get_col_width_rows_Min(self, col_idx, k, width) ==
    IF k > Len(self.rows) THEN [res |-> "Ok", width |-> width]
    ELSE IF col_idx >= Len(self.rows[k]) THEN [res |-> "panic", width |-> 0]
    ELSE get_col_width_rows_Min(self, col_idx, k + 1,
                                IF Len(self.rows[k][col_idx + 1]) < width
                                THEN Len(self.rows[k][col_idx + 1]) ELSE width)

RECURSIVE get_col_width_rows(_, _, _, _)
\* Table::get_col_width, `for r in &self.rows` from row k on; r[col_idx] panics
\* out of bounds
get_col_width_rows(self, col_idx, k, width) ==
    IF k > Len(self.rows) THEN [res |-> "Ok", width |-> width]
    ELSE IF col_idx >= Len(self.rows[k]) THEN [res |-> "panic", width |-> 0]
    ELSE get_col_width_rows(self, col_idx, k + 1,
                            IF Len(self.rows[k][col_idx + 1]) > width
                            THEN Len(self.rows[k][col_idx + 1]) ELSE width)

\* Table::get_col_width
get_col_width(self, col_idx) ==
    IF col_idx >= self.num_cols THEN [res |-> "Err", width |-> 0]
    ELSE IF col_idx >= Len(self.titles) THEN [res |-> "panic", width |-> 0]
    ELSE get_col_width_rows(self, col_idx, 1, Len(self.titles[col_idx + 1]))

\* Table::print, "Compute columns width": unwrap() panics on an Err
print_col_width(self) ==
    IF \E i \in 0..(self.num_cols - 1) : get_col_width(self, i).res # "Ok"
    THEN [res |-> "panic", col_width |-> <<>>]
    ELSE [res |-> "Ok", col_width |-> [i \in 1..self.num_cols |-> get_col_width(self, i - 1).width]]

----------------------------------------------------------------------------
\* Rendering.  A frame is a call of print in progress: `pc` is the statement
\* about to run, `site` the call of print_line_separator (even) or print_line
\* (odd) it is in, counted from 0 in the order print makes them, `i` the
\* column of the loop, `c` the iterations the inner loop has left.

Idle ==
    [pc |-> "idle", caller |-> "none", site |-> 0, i |-> 0, c |-> 0,
     col_width |-> <<>>, out |-> NoSink, res |-> "none"]

\* the call returns res
Return(f, res) == [f EXCEPT !.pc = "returned", !.res = res]

\* the `line` argument of the print_line call at an odd site
line_of(self, site) ==
    IF site = 1 THEN self.titles ELSE self.rows[(site - 1) \div 2]

\* print without line 162: no rule follows a row's line
print_next_NoRowRule(self, f) ==
    IF f.site + 1 > 2 * Len(self.rows) + 2
    THEN [f EXCEPT !.pc = "flush"]
    ELSE IF f.site >= 3
    THEN [f EXCEPT !.pc = "line_first", !.site = f.site + 2, !.i = 0, !.c = 0]
    ELSE IF (f.site + 1) % 2 = 1
    THEN [f EXCEPT !.pc = "line_first", !.site = f.site + 1, !.i = 0, !.c = 0]
    ELSE [f EXCEPT !.pc = "sep_first", !.site = f.site + 1, !.i = 0, !.c = 0]

\* Table::print: the statement after the call at f.site
print_next(self, f) ==
    IF f.site + 1 > 2 * Len(self.rows) + 2
    THEN [f EXCEPT !.pc = "flush"]
    ELSE IF (f.site + 1) % 2 = 1
    THEN [f EXCEPT !.pc = "line_first", !.site = f.site + 1, !.i = 0, !.c = 0]
    ELSE [f EXCEPT !.pc = "sep_first", !.site = f.site + 1, !.i = 0, !.c = 0]

\* Table::print_line_separator: `for i in 0..self.num_cols` at column i
print_line_separator_col(self, f, i) ==
    IF i >= self.num_cols THEN [f EXCEPT !.pc = "sep_linefeed", !.i = i]
    ELSE IF i >= Len(f.col_width) THEN Return(f, "panic")
    ELSE [f EXCEPT !.pc = "sep_fill", !.i = i, !.c = f.col_width[i + 1] + 2]

\* Table::print_line_separator: the bytes the statement at f.pc writes
print_line_separator_data(self, f) ==
    CASE f.pc = "sep_first" -> char_to_string(self.sep_cross)
      [] f.pc = "sep_fill" -> char_to_string(self.line_sep)
      [] f.pc = "sep_cross" -> char_to_string(self.sep_cross)
      [] f.pc = "sep_linefeed" -> LINEFEED

\* Table::print_line_separator: after the write at f.pc succeeded
print_line_separator(self, f) ==
    CASE f.pc = "sep_first" -> print_line_separator_col(self, f, 0)
      [] f.pc = "sep_fill" ->
            IF f.c > 1 THEN [f EXCEPT !.c = f.c - 1] ELSE [f EXCEPT !.pc = "sep_cross", !.c = 0]
      [] f.pc = "sep_cross" -> print_line_separator_col(self, f, f.i + 1)
      [] f.pc = "sep_linefeed" -> print_next(self, f)

\* Table::print_line: `for i in 0..self.num_cols` at column i
print_line_col(self, f, i) ==
    IF i >= self.num_cols THEN [f EXCEPT !.pc = "line_linefeed", !.i = i]
    ELSE [f EXCEPT !.pc = "line_space", !.i = i]

\* print_line with `0...n` for `0..n` in the padding loop: one space too many
print_line_pad_OffByOne(self, f, line) ==
    IF f.i >= Len(f.col_width) \/ f.i >= Len(line) THEN Return(f, "panic")
    ELSE IF f.col_width[f.i + 1] - Len(line[f.i + 1]) < 0 THEN Return(f, "overflow")
    ELSE [f EXCEPT !.pc = "line_pad", !.c = f.col_width[f.i + 1] - Len(line[f.i + 1]) + 1]

\* Table::print_line: `for _ in 0..(col_width[i] - line[i].len())`; the usize
\* subtraction overflows when it is negative
print_line_pad(self, f, line) ==
    IF f.i >= Len(f.col_width) \/ f.i >= Len(line) THEN Return(f, "panic")
    ELSE IF f.col_width[f.i + 1] - Len(line[f.i + 1]) < 0 THEN Return(f, "overflow")
    ELSE IF f.col_width[f.i + 1] - Len(line[f.i + 1]) = 0 THEN [f EXCEPT !.pc = "line_sep"]
    ELSE [f EXCEPT !.pc = "line_pad", !.c = f.col_width[f.i + 1] - Len(line[f.i + 1])]

\* Table::print_line: the bytes the statement at f.pc writes
print_line_data(self, f, line) ==
    CASE f.pc = "line_first" -> char_to_string(self.col_sep)
      [] f.pc = "line_space" -> SPACE
      [] f.pc = "line_cell" -> line[f.i + 1]
      [] f.pc = "line_space2" -> SPACE
      [] f.pc = "line_pad" -> SPACE
      [] f.pc = "line_sep" -> char_to_string(self.col_sep)
      [] f.pc = "line_linefeed" -> LINEFEED

\* Table::print_line: after the write at f.pc succeeded
print_line(self, f, line) ==
    CASE f.pc = "line_first" -> print_line_col(self, f, 0)
      [] f.pc = "line_space" -> [f EXCEPT !.pc = "line_cell"]
      [] f.pc = "line_cell" -> [f EXCEPT !.pc = "line_space2"]
      [] f.pc = "line_space2" -> print_line_pad(self, f, line)
      [] f.pc = "line_pad" ->
            IF f.c > 1 THEN [f EXCEPT !.c = f.c - 1] ELSE [f EXCEPT !.pc = "line_sep", !.c = 0]
      [] f.pc = "line_sep" -> print_line_col(self, f, f.i + 1)
      [] f.pc = "line_linefeed" -> print_next(self, f)

\* out.write_all(..) without try!: the error is dropped
try_Ignore(self, f, ok) ==
    IF f.site % 2 = 0 THEN print_line_separator(self, f)
    ELSE print_line(self, f, line_of(self, f.site))

\* try!(out.write_all(..)): the error is returned at once
try(self, f, ok) ==
    IF ~ok THEN Return(f, "Err")
    ELSE IF f.site % 2 = 0 THEN print_line_separator(self, f)
    ELSE print_line(self, f, line_of(self, f.site))

\* Table::print up to its first write: the widths, then the first rule
print(self, caller, out) ==
    LET cw == print_col_width(self)
        f == [pc |-> "sep_first", caller |-> caller, site |-> 0, i |-> 0, c |-> 0,
              col_width |-> cw.col_width, out |-> out, res |-> "none"]
    IN  IF cw.res # "Ok" THEN Return(f, "panic") ELSE f

\* the bytes the statement at f.pc writes
print_data(self, f) ==
    IF f.site % 2 = 0 THEN print_line_separator_data(self, f)
    ELSE print_line_data(self, f, line_of(self, f.site))

\* <Table as fmt::Display>::fmt after print returned: an error becomes
\* fmt::Error, and the formatter's write_str may fail
fmt(res, write_str_ok) ==
    IF res = "Err" THEN "Err"
    ELSE IF res # "Ok" THEN res
    ELSE IF write_str_ok THEN "Ok" ELSE "Err"

----------------------------------------------------------------------------
\* The state machine.  `last` records the most recent call: its name, its
\* arguments and its result ("none" while a render is running).

Call(op, res, column, row, arg) ==
    [op |-> op, res |-> res, column |-> column, row |-> row, arg |-> arg]

SetTable(t) ==
    /\ num_cols' = t.num_cols
    /\ titles' = t.titles
    /\ rows' = t.rows
    /\ col_sep' = t.col_sep
    /\ line_sep' = t.line_sep
    /\ sep_cross' = t.sep_cross

table == <<num_cols, titles, rows, col_sep, line_sep, sep_cross>>

Init ==
    \E ts \in TitleInputs :
        /\ num_cols = new(ts).num_cols
        /\ titles = new(ts).titles
        /\ rows = new(ts).rows
        /\ col_sep = new(ts).col_sep
        /\ line_sep = new(ts).line_sep
        /\ sep_cross = new(ts).sep_cross
        /\ last = Call("new", "Ok", 0, 0, ts)
        /\ frame = Idle

Separators ==
    /\ frame.pc = "idle"
    /\ \E s \in SeparatorInputs :
        /\ SetTable(separators(Self, s[1], s[2], s[3]))
        /\ last' = Call("separators", "Ok", 0, 0, s)
    /\ UNCHANGED frame

AddRow ==
    /\ frame.pc = "idle"
    /\ Len(rows) < MaxRows
    /\ \E row \in RowInputs :
        /\ SetTable(add_row(Self, row).self)
        /\ last' = Call("add_row", add_row(Self, row).res, 0, 0, row)
    /\ UNCHANGED frame

AddEmptyRow ==
    /\ frame.pc = "idle"
    /\ Len(rows) < MaxRows
    /\ SetTable(add_empty_row(Self).self)
    /\ last' = Call("add_empty_row", add_empty_row(Self).res, 0, 0, <<>>)
    /\ UNCHANGED frame

SetElement ==
    /\ frame.pc = "idle"
    /\ \E element \in Elements, column \in 0..MaxCols, row \in 0..MaxRows :
        /\ SetTable(set_element(Self, element, column, row).self)
        /\ last' = Call("set_element", set_element(Self, element, column, row).res,
                        column, row, element)
    /\ UNCHANGED frame

RemoveRow ==
    /\ frame.pc = "idle"
    /\ \E row \in 0..MaxRows :
        /\ SetTable(remove_row(Self, row))
        /\ last' = Call("remove_row", "Ok", 0, row, <<>>)
    /\ UNCHANGED frame

\* table.get_mut_row(row)[column] = value, by the holder of the reference;
\* both indexings panic out of bounds
GetMutRowSet ==
    /\ frame.pc = "idle"
    /\ \E row \in 0..MaxRows, column \in 0..MaxCols, value \in RefInputs :
        IF get_mut_row(Self, row).res = "panic" \/ column >= Len(rows[row + 1])
        THEN /\ rows' = rows
             /\ last' = Call("get_mut_row[]", "panic", column, row, value)
        ELSE /\ rows' = [rows EXCEPT ![get_mut_row(Self, row).idx][column + 1] = value]
             /\ last' = Call("get_mut_row[]", "Ok", column, row, value)
    /\ UNCHANGED <<num_cols, titles, col_sep, line_sep, sep_cross, frame>>

\* table.get_mut_row(row).push(value): Row is Vec<String>
GetMutRowPush ==
    /\ frame.pc = "idle"
    /\ \E row \in 0..(MaxRows - 1), value \in RefInputs :
        /\ get_mut_row(Self, row).res = "ok"
        /\ Len(rows[row + 1]) <= num_cols
        /\ rows' = [rows EXCEPT ![get_mut_row(Self, row).idx] = Append(@, value)]
        /\ last' = Call("get_mut_row.push", "Ok", 0, row, value)
    /\ UNCHANGED <<num_cols, titles, col_sep, line_sep, sep_cross, frame>>

\* table.get_mut_row(row).pop(): None on an empty row
GetMutRowPop ==
    /\ frame.pc = "idle"
    /\ \E row \in 0..(MaxRows - 1) :
        /\ get_mut_row(Self, row).res = "ok"
        /\ rows' = [rows EXCEPT ![get_mut_row(Self, row).idx] =
                        IF @ = <<>> THEN @ ELSE SubSeq(@, 1, Len(@) - 1)]
        /\ last' = Call("get_mut_row.pop", "Ok", 0, row, <<>>)
    /\ UNCHANGED <<num_cols, titles, col_sep, line_sep, sep_cross, frame>>

\* table.print(&mut out) is called on some Write
PrintCall ==
    /\ frame.pc = "idle"
    /\ frame' = print(Self, "print", Sink("io"))
    /\ last' = Call("print", "none", 0, 0, <<>>)
    /\ UNCHANGED table

\* format!("{}", table): fmt calls print on a new StringWriter
DisplayCall ==
    /\ frame.pc = "idle"
    /\ frame' = print(Self, "fmt", Sink("string"))
    /\ last' = Call("fmt", "none", 0, 0, <<>>)
    /\ UNCHANGED table

\* one try!(out.write_all(..)) of the render
PrintWrite ==
    /\ frame.pc \notin {"idle", "returned", "flush"}
    /\ IF frame.pc = "line_cell" /\ frame.i >= Len(line_of(Self, frame.site))
       THEN frame' = Return(frame, "panic")
       ELSE \E ok \in write_all(frame.out, print_data(Self, frame)) :
                frame' = try(Self,
                             [frame EXCEPT !.out = Written(@, "write", print_data(Self, frame), ok)],
                             ok)
    /\ UNCHANGED <<table, last>>

\* return out.flush()
PrintFlush ==
    /\ frame.pc = "flush"
    /\ \E ok \in flush(frame.out) :
        frame' = Return([frame EXCEPT !.out = Written(@, "flush", <<>>, ok)],
                        IF ok THEN "Ok" ELSE "Err")
    /\ UNCHANGED <<table, last>>

\* print returns to its caller
PrintReturn ==
    /\ frame.pc = "returned"
    /\ frame.caller = "print"
    /\ last' = Call("print", frame.res, 0, 0, <<>>)
    /\ frame' = Idle
    /\ UNCHANGED table

\* print returns to fmt, which returns to its caller
DisplayReturn ==
    /\ frame.pc = "returned"
    /\ frame.caller = "fmt"
    /\ \E write_str_ok \in BOOLEAN :
        last' = Call("fmt", fmt(frame.res, write_str_ok), 0, 0, <<>>)
    /\ frame' = Idle
    /\ UNCHANGED table

\* the operations of Table itself
NextCore ==
    \/ Separators
    \/ AddRow
    \/ AddEmptyRow
    \/ SetElement
    \/ RemoveRow
    \/ PrintCall
    \/ DisplayCall
    \/ PrintWrite
    \/ PrintFlush
    \/ PrintReturn
    \/ DisplayReturn

\* and the writes through the row references it hands out
Next ==
    \/ NextCore
    \/ GetMutRowSet
    \/ GetMutRowPush
    \/ GetMutRowPop

Spec == Init /\ [][Next]_vars

SpecCore == Init /\ [][NextCore]_vars

----------------------------------------------------------------------------
\* Vocabulary of the properties

\* the greatest element of a non-empty set of numbers
MaxOf(S) == CHOOSE m \in S : \A x \in S : x <= m

RECURSIVE Flat(_)
\* the concatenation of a sequence of sequences
Flat(ss) == IF ss = <<>> THEN <<>> ELSE ss[1] \o Flat(Tail(ss))

\* n copies of the byte string x, concatenated
Repeat(x, n) == Flat([k \in 1..n |-> x])

RECURSIVE SumTo(_, _)
\* f[1] + ... + f[n]
SumTo(f, n) == IF n = 0 THEN 0 ELSE f[n] + SumTo(f, n - 1)

\* the calls the sink of the running render has received
Events == frame.out.events

\* the successful writes among them, in order
RECURSIVE OkWrites(_)
OkWrites(es) ==
    IF es = <<>> THEN <<>>
    ELSE IF es[1].op = "write" /\ es[1].ok THEN <<es[1].data>> \o OkWrites(Tail(es))
    ELSE OkWrites(Tail(es))

RECURSIVE LineLens(_, _)
\* the byte lengths, terminator excluded, of the lines completed by the writes ws
LineLens(ws, cur) ==
    IF ws = <<>> THEN <<>>
    ELSE IF ws[1] = LINEFEED THEN <<cur>> \o LineLens(Tail(ws), 0)
    ELSE LineLens(Tail(ws), cur + Len(ws[1]))

\* the length of a separator character in bytes
SepLen(c) == Len(char_to_string(c))

\* the width of column i (from 1) as the specification defines it: the longest
\* of the title and of the cells the rows have in that column
Width(i) ==
    MaxOf({Len(titles[i])} \cup { Len(rows[k][i]) : k \in { j \in 1..Len(rows) : i <= Len(rows[j]) } })

\* a rule line and a content line as the specification lays them out
RuleLine ==
    char_to_string(sep_cross)
        \o Flat([i \in 1..num_cols |->
                    Repeat(char_to_string(line_sep), Width(i) + 2) \o char_to_string(sep_cross)])

ContentLine(cells) ==
    char_to_string(col_sep)
        \o Flat([i \in 1..num_cols |->
                    SPACE \o cells[i] \o SPACE \o Repeat(SPACE, Width(i) - Len(cells[i]))
                        \o char_to_string(col_sep)])

\* the lines of a whole render, in order
RenderLines ==
    <<RuleLine, ContentLine(titles), RuleLine>>
        \o Flat([k \in 1..Len(rows) |-> <<ContentLine(rows[k]), RuleLine>>])

----------------------------------------------------------------------------
\* Properties

\* C1: in every reachable state the column count is the number of titles and
\* every stored row has exactly that many cells.
C1_RowArity ==
    /\ num_cols = Len(titles)
    /\ \A k \in 1..Len(rows) : Len(rows[k]) = num_cols

\* C2: set_element with column >= column count or row >= row count returns the
\* corresponding index error and changes nothing in the table.
C2_SetElementOutOfBounds ==
    [][(last'.op = "set_element" /\ (last'.column >= num_cols \/ last'.row >= Len(rows)))
          => /\ last'.res = IF last'.column >= num_cols THEN "ErrColumn" ELSE "ErrRow"
             /\ table' = table]_vars

\* C3: add_row of a row of the wrong arity returns an error and changes no
\* row; of a row of the right arity it appends that row and keeps the others.
C3_AddRow ==
    [][last'.op = "add_row"
          => IF Len(last'.arg) # num_cols
             THEN last'.res = "Err" /\ rows' = rows
             ELSE /\ last'.res = "Ok"
                  /\ Len(rows') = Len(rows) + 1
                  /\ rows'[Len(rows')] = last'.arg
                  /\ \A k \in 1..Len(rows) : rows'[k] = rows[k]]_vars

C3_Witness ==
    /\ last.op = "add_row"
    /\ last.res = "Err"
    /\ Len(last.arg) = num_cols + 1
    /\ Len(rows) >= 1

\* C4: a successful render writes rule, title line, rule, then each row's line
\* and a rule, in insertion order, 2 * n + 3 lines in all, and then flushes the
\* sink once, as its last call.
C4_RenderOrder ==
    (frame.pc = "returned" /\ frame.res = "Ok")
        => /\ Flat(OkWrites(Events)) = Flat([j \in 1..Len(RenderLines) |-> RenderLines[j] \o LINEFEED])
           /\ Len(LineLens(OkWrites(Events), 0)) = 2 * Len(rows) + 3
           /\ \A e \in 1..Len(Events) : Events[e].op = "flush" <=> e = Len(Events)

C4_Witness ==
    /\ frame.pc = "returned"
    /\ frame.res = "Ok"
    /\ frame.caller = "print"
    /\ num_cols = 2
    /\ Len(rows) = 2
    /\ rows[1] # rows[2]

\* C5: for every column below the column count the computed width is the
\* greatest length among the title and the cells of that column, and for any
\* other column the computation returns an error.
C5_ColWidth ==
    \A i \in 0..(MaxCols + 1) :
        IF i < num_cols
        THEN /\ get_col_width(Self, i).res = "Ok"
             /\ get_col_width(Self, i).width = Width(i + 1)
        ELSE get_col_width(Self, i).res = "Err"

\* the columns' widths plus w each, summed
WidthSum(w) == SumTo([i \in 1..num_cols |-> frame.col_width[i] + w], num_cols)

\* the lengths of the lines completed so far
Lens == LineLens(OkWrites(Events), 0)

\* a line has just been completed
LineDone == frame.pc \in {"line_first", "sep_first", "flush"} /\ Len(Events) > 0

\* C6 as stated: every line a render completes, content or rule, is
\* 1 + sum of (width[i] + 3) bytes long.
C6_LineLength ==
    LineDone => \A j \in 1..Len(Lens) : Lens[j] = 1 + WidthSum(3)

\* C6 as amended: a content line is (n + 1) column separators and sum of
\* (width[i] + 2) bytes long, a rule line (n + 1) corners and sum of
\* (width[i] + 2) rule characters; that is 1 + sum of (width[i] + 3) for
\* both when the three separators are one byte each.
C6_LineLengthInBytes ==
    LineDone
        => /\ \A j \in 1..Len(Lens) :
                  Lens[j] = IF j % 2 = 0
                            THEN (num_cols + 1) * SepLen(col_sep) + WidthSum(2)
                            ELSE (num_cols + 1) * SepLen(sep_cross) + SepLen(line_sep) * WidthSum(2)
           /\ (SepLen(col_sep) = 1 /\ SepLen(sep_cross) = 1 /\ SepLen(line_sep) = 1)
                  => \A j \in 1..Len(Lens) : Lens[j] = 1 + WidthSum(3)

C6_Witness ==
    /\ frame.pc = "flush"
    /\ num_cols = 2
    /\ Len(rows) = 2
    /\ SepLen(col_sep) = 3
    /\ \E k \in 1..2 : Len(rows[k]) = 2 /\ Len(rows[k][1]) < frame.col_width[1]

\* C7: remove_row of an index that is no row changes nothing; of a row, it
\* leaves the rows before it in place and moves each later row down by one.
C7_RemoveRow ==
    [][last'.op = "remove_row"
          => /\ last'.res = "Ok"
             /\ IF last'.row >= Len(rows)
                THEN rows' = rows
                ELSE /\ Len(rows') = Len(rows) - 1
                     /\ \A k \in 1..Len(rows') :
                            rows'[k] = IF k < last'.row + 1 THEN rows[k] ELSE rows[k + 1]]_vars

C7_Witness ==
    /\ last.op = "remove_row"
    /\ last.row = 0
    /\ Len(rows) = MaxRows - 1
    /\ Len(rows) >= 1

\* C8: a render whose sink failed a write or the flush returns the failure and
\* made no call to the sink after the failed one; it returns success only if
\* every write and the flush succeeded.
C8_FailureReturned ==
    frame.pc = "returned"
        => /\ \A e \in 1..Len(Events) :
                  ~Events[e].ok => (frame.res = "Err" /\ e = Len(Events))
           /\ frame.res = "Ok"
                  => /\ \A e \in 1..Len(Events) : Events[e].ok
                     /\ Len(Events) > 0
                     /\ Events[Len(Events)].op = "flush"

C8_Witness ==
    /\ frame.pc = "returned"
    /\ frame.res = "Err"
    /\ frame.caller = "print"
    /\ Len(rows) = 2
    /\ Len(Events) > 20
    /\ Events[Len(Events)].op = "write"
    /\ ~Events[Len(Events)].ok

\* C9: set_element with column < column count and row < row count succeeds,
\* makes that cell the display string of the value and changes nothing else.
C9_SetElement ==
    [][(last'.op = "set_element" /\ last'.column < num_cols /\ last'.row < Len(rows))
          => /\ last'.res = "Ok"
             /\ Len(rows') = Len(rows)
             /\ \A k \in 1..Len(rows) :
                    /\ Len(rows'[k]) = Len(rows[k])
                    /\ \A c \in 1..Len(rows[k]) :
                           rows'[k][c] = IF k = last'.row + 1 /\ c = last'.column + 1
                                         THEN to_string(last'.arg) ELSE rows[k][c]
             /\ UNCHANGED <<num_cols, titles, col_sep, line_sep, sep_cross>>]_vars

\* C10: in a render of a table built by the table's own operations every
\* padding count width[i] - length(cell i) is non-negative and every index into
\* the line and the width vector is in bounds, so the render never aborts.
C10_NoAbort ==
    /\ frame.res \notin {"panic", "overflow"}
    /\ (frame.pc \notin {"idle", "returned", "flush"} /\ frame.i < num_cols)
           => /\ frame.i < Len(frame.col_width)
              /\ frame.site % 2 = 1
                     => /\ frame.i < Len(line_of(Self, frame.site))
                        /\ frame.col_width[frame.i + 1]
                               - Len(line_of(Self, frame.site)[frame.i + 1]) >= 0

C10_Witness ==
    /\ frame.pc = "line_pad"
    /\ frame.site >= 3
    /\ frame.i = 1
    /\ frame.c = 2

====
